---------------------------- MODULE Spec2Model ----------------------------
(***************************************************************************)
(* A model of build.py, the makefile generator of lemon.                   *)
(*                                                                         *)
(* Text is modelled as Python models it: a str is a sequence of            *)
(* characters, each character a one-character string.  find, slicing,      *)
(* split, join and format are computed on those sequences the way the      *)
(* interpreter computes them.  The dependency scanner (gcc -MM, run as a   *)
(* subprocess) is the environment: each run returns one of a set of        *)
(* outcomes (exit status, captured standard output).                       *)
(***************************************************************************)
EXTENDS Integers, Sequences, FiniteSets

\* ------------------------------------------------------------------------
\* Bounds of the model

\* longest configured file list
MaxFiles == 2

\* longest configured library list
MaxLibs == 2

\* ------------------------------------------------------------------------
\* Python's str operations

\* str.isspace() for one character: what str.split() with no argument
\* splits at
IsSpace(c) == c \in {" ", "\n", "\t", "\r", "\f"}

\* s[a:b] with 0 <= a, b: the characters at 0-based places a .. b-1
Slice(s, a, b) == SubSeq(s, a + 1, IF b > Len(s) THEN Len(s) ELSE b)

\* s.find(c): the 0-based place of the first c in s, or -1
Find(s, c) ==
    IF \E i \in 1..Len(s) : s[i] = c
    THEN (CHOOSE i \in 1..Len(s) : s[i] = c /\ \A k \in 1..(i - 1) : s[k] # c) - 1
    ELSE -1

\* the first place >= i (1-based) that holds a character that is not white
\* space, or Len(s) + 1
SkipSpace(s, i) ==
    CHOOSE j \in i..(Len(s) + 1) :
        /\ (j = Len(s) + 1 \/ ~IsSpace(s[j]))
        /\ \A k \in i..(j - 1) : IsSpace(s[k])

\* the first place >= i (1-based) that holds white space, or Len(s) + 1
SkipWord(s, i) ==
    CHOOSE j \in i..(Len(s) + 1) :
        /\ (j = Len(s) + 1 \/ IsSpace(s[j]))
        /\ \A k \in i..(j - 1) : ~IsSpace(s[k])

RECURSIVE SplitFrom(_, _)
SplitFrom(s, i) ==
    LET b == SkipSpace(s, i) IN
    IF b > Len(s) THEN << >>
    ELSE LET e == SkipWord(s, b) IN
         <<SubSeq(s, b, e - 1)>> \o SplitFrom(s, e)

\* s.split(): the maximal runs of characters that are not white space, in
\* order
Split(s) == SplitFrom(s, 1)

RECURSIVE Join(_, _)
\* sep.join(words)
Join(sep, words) ==
    IF words = << >> THEN << >>
    ELSE IF Len(words) = 1 THEN words[1]
    ELSE words[1] \o sep \o Join(sep, Tail(words))

\* word[-3:]
Tail3(word) == SubSeq(word, IF Len(word) > 3 THEN Len(word) - 2 ELSE 1, Len(word))

\* word[:-1]
DropLast(word) == SubSeq(word, 1, Len(word) - 1)

\* ------------------------------------------------------------------------
\* The configuration tables of build.py

\* executable_name = "lemon"
executable_name ==
    <<"l","e","m","o","n">>

\* debug_dir = "./debug/"
debug_dir ==
    <<".","/","d","e","b","u","g","/">>

\* release_dir = "./release/"
release_dir ==
    <<".","/","r","e","l","e","a","s","e","/">>

\* the preamble text: CC, CFLAGS, .PHONY: all
preamble ==
    <<"C","C"," ","="," ","g","c","c","\n","\n","C","F","L","A",
    "G","S"," ","="," ","-","s","t","d","=","g","n","u","1",
    "7"," ","-","W","a","l","l"," ","-","W","e","x","t","r",
    "a"," ","-","W","e","r","r","o","r"," ","-","W","p","e",
    "d","a","n","t","i","c","\n","C","F","L","A","G","S"," ",
    "+","="," ","-","W","c","o","n","v","e","r","s","i","o",
    "n"," ","-","W","c","a","s","t","-","q","u","a","l"," ",
    "-","W","n","u","l","l","-","d","e","r","e","f","e","r",
    "e","n","c","e","\n","C","F","L","A","G","S"," ","+","=",
    " ","-","W","d","o","u","b","l","e","-","p","r","o","m",
    "o","t","i","o","n","\n","\n","#"," ","e","n","a","b","l",
    "e"," ","c","o","l","o","u","r","e","d"," ","e","r","r",
    "o","r"," ","o","u","t","p","u","t"," ","f","r","o","m",
    " ",".","/","s","r","c","/","x","e","r","r","o","r",".",
    "c","\n","C","F","L","A","G","S"," ","+","="," ","-","D",
    "C","O","L","O","U","R","S","\n","\n","#","a","l","l","o",
    "w","s"," ","f","o","r"," ","t","e","m","p","l","a","t",
    "e","d"," ","d","a","t","a"," ","s","t","r","u","c","t",
    "u","r","e","s"," ","i","n"," ",".","/","s","r","c","/",
    "l","i","b","\n","C","F","L","A","G","S"," ","+","="," ",
    "-","W","n","o","-","u","n","u","s","e","d","-","f","u",
    "n","c","t","i","o","n","\n","\n",".","P","H","O","N","Y",
    ":"," ","a","l","l","\n","\n">>

\* debug_build template, text piece 1 around the {0} fields
debug_build_1 ==
    <<".","P","H","O","N","Y",":"," ","d","e","b","u","g"," ",
    "d","e","b","u","g","_","d","e","p","s","\n","\n","d","e",
    "b","u","g",":"," ","C","F","L","A","G","S"," ","+","=",
    " ","-","g","g","d","b"," ","-","O","0"," ","-","D","D",
    "E","B","U","G","\n","d","e","b","u","g",":"," ","d","e",
    "b","u","g","_","d","e","p","s"," ">>

\* debug_build template, text piece 2 around the {0} fields
debug_build_2 ==
    <<"l","e","m","o","n","\n","\t","@","e","c","h","o"," ","\"",
    "\\","n","B","u","i","l","d"," ","f","i","n","i","s","h",
    "e","d"," ","s","u","c","c","e","s","s","f","u","l","l",
    "y",".","\"","\n","\t","@","e","c","h","o"," ","\"","L","e",
    "m","o","n"," ","w","a","s"," ","c","o","m","p","i","l",
    "e","d"," ","i","n"," ","d","e","b","u","g"," ","m","o",
    "d","e",".","\"","\n","\t","@","e","c","h","o"," ","\"","I",
    "s","s","u","e"," ","'","m","a","k","e"," ","r","e","l",
    "e","a","s","e","'"," ","t","o"," ","t","u","r","n"," ",
    "o","n"," ","o","p","t","i","m","i","s","a","t","i","o",
    "n","s",".","\"","\n","\n","d","e","b","u","g","_","d","e",
    "p","s",":","\n","\t","@","m","k","d","i","r"," ","-","p",
    " ">>

\* debug_build template, text piece 3 around the {0} fields
debug_build_3 ==
    <<"\n","\n">>

\* release_build template, text piece 1 around the {0} fields
release_build_1 ==
    <<".","P","H","O","N","Y",":"," ","r","e","l","e","a","s",
    "e"," ","r","e","l","e","a","s","e","_","d","e","p","s",
    "\n","\n","r","e","l","e","a","s","e",":"," ","C","F","L",
    "A","G","S"," ","+","="," ","-","O","3"," ","-","m","a",
    "r","c","h","=","n","a","t","i","v","e","\n","r","e","l",
    "e","a","s","e",":"," ","r","e","l","e","a","s","e","_",
    "d","e","p","s"," ">>

\* release_build template, text piece 2 around the {0} fields
release_build_2 ==
    <<"l","e","m","o","n","\n","\t","@","e","c","h","o"," ","\"",
    "\\","n","B","u","i","l","d"," ","f","i","n","i","s","h",
    "e","d"," ","s","u","c","c","e","s","s","f","u","l","l",
    "y",".","\"","\n","\t","@","e","c","h","o"," ","\"","L","e",
    "m","o","n"," ","w","a","s"," ","c","o","m","p","i","l",
    "e","d"," ","i","n"," ","r","e","l","e","a","s","e"," ",
    "m","o","d","e",".","\"","\n","\n","r","e","l","e","a","s",
    "e","_","d","e","p","s",":","\n","\t","@","m","k","d","i",
    "r"," ","-","p"," ">>

\* release_build template, text piece 3 around the {0} fields
release_build_3 ==
    <<"\n","\n">>

\* clean template, text piece 1 around the {} fields
clean_1 ==
    <<".","P","H","O","N","Y",":"," ","c","l","e","a","n","\n",
    "\n","c","l","e","a","n",":","\n","\t","@","r","m"," ","-",
    "r","f"," ">>

\* clean template, text piece 2 around the {} fields
clean_2 ==
    <<" ">>

\* clean template, text piece 3 around the {} fields
clean_3 ==
    <<"\n","\t","@","e","c","h","o"," ","\"","d","i","r","e","c",
    "t","o","r","i","e","s"," ","c","l","e","a","n","e","d",
    "\"","\n">>

\* debug_build: the template with both {0} fields filled with debug_dir
debug_build ==
    debug_build_1 \o debug_dir \o debug_build_2 \o debug_dir \o debug_build_3

\* release_build: the template with both {0} fields filled with release_dir
release_build ==
    release_build_1 \o release_dir \o release_build_2 \o release_dir
        \o release_build_3

\* clean: the template filled with debug_dir and release_dir
clean == clean_1 \o debug_dir \o clean_2 \o release_dir \o clean_3

\* libraries = ["pthread"]
pthread == <<"p","t","h","r","e","a","d">>

\* the second library of the documented example, ["pthread", "m"]
libm == <<"m">>

LibraryNames == {pthread, libm}

\* a directory that is neither debug_dir nor release_dir
other_dir == <<".","/","t","m","p","/">>

Directories == {debug_dir, release_dir, other_dir}

\* Source-file paths a configuration may list: two files of one directory
\* and a file of another directory that shares a base name with one of them
file_a == <<".","/","a",".","c">>

file_b == <<".","/","b",".","c">>

file_sa == <<".","/","s","/","a",".","c">>

SourcePaths == {file_a, file_b, file_sa}

\* the file lists of at most n pairwise distinct paths
FileLists(n) ==
    {fs \in UNION {[1..k -> SourcePaths] : k \in 0..n} :
        \A i, j \in 1..Len(fs) : i # j => fs[i] # fs[j]}

\* the library lists of at most n names; a name may repeat
LibraryLists(n) == UNION {[1..k -> LibraryNames] : k \in 0..n}

\* ------------------------------------------------------------------------
\* The dependency scanner: the subprocess "gcc -MM <file>"

RECURSIVE LastIndex(_, _, _)
\* the last place (1-based) of c in s at or before place i, or 0
LastIndex(s, c, i) ==
    IF i = 0 THEN 0
    ELSE IF s[i] = c THEN i
    ELSE LastIndex(s, c, i - 1)

\* the path without its directories
Basename(path) == SubSeq(path, LastIndex(path, "/", Len(path)) + 1, Len(path))

\* the name without its suffix (".c")
Stem(name) ==
    LET dot == LastIndex(name, ".", Len(name)) IN
    IF dot = 0 THEN name ELSE SubSeq(name, 1, dot - 1)

\* the header a source file includes, when it includes one: ./a.c -> ./a.h
HeaderOf(file) == Stem(file) \o <<".", "h">>

\* The rule gcc -MM writes: the target is the file's base name with its
\* suffix replaced by the object suffix, then the file, then the headers
\* it includes, on one line
GccRule(file, suffix, headers) ==
    Stem(Basename(file)) \o suffix \o <<":", " ">> \o Join(<<" ">>, <<file>> \o headers)
        \o <<"\n">>

\* the object suffix of gcc on this platform
ObjSuffix == <<".", "o">>

\* the object suffix of a compiler whose objects are not named *.o
ForeignSuffix == <<".", "o", "b", "j">>

\* What one run of the subprocess can come back with (a CompletedProcess:
\* returncode and captured stdout):
\*   the scan fails (a missing or invalid file);
\*   a rule for a file that includes nothing;
\*   a rule for a file that includes one header;
\*   nothing on stdout with status 0 (a file gcc does not take for C
\*   source and leaves to the linker);
\*   a rule whose target does not end in ".o"
ScanOutcomes(file) ==
    { [returncode |-> 1, stdout |-> << >>],
      [returncode |-> 0, stdout |-> GccRule(file, ObjSuffix, << >>)],
      [returncode |-> 0, stdout |-> GccRule(file, ObjSuffix, <<HeaderOf(file)>>)],
      [returncode |-> 0, stdout |-> << >>],
      [returncode |-> 0, stdout |-> GccRule(file, ForeignSuffix, << >>)] }

\* a variant of RunRaises: run(..., check=False), the exit status ignored
RunIgnoresStatus(proc) == FALSE

\* run(..., check=True): raises CalledProcessError on a non-zero status
RunRaises(proc) == proc.returncode # 0

\* ------------------------------------------------------------------------
\* State

VARIABLES
    files,      \* the global file list
    libraries,  \* the global library list
    pc,         \* where the run is: "idle", "call_build", "loop",
                \* "returned", "made", "printed", "failed"
    entry,      \* what was called: "none", "create_makefile", "build"
    directory,  \* build()'s parameter
    block,      \* which call of build() this is: 1 or 2
    idx,        \* build()'s place in its loop over files (1-based)
    script,     \* build()'s local script
    makefile,   \* create_makefile()'s local makefile
    ret,        \* what a direct call of build() returned
    printed,    \* what has been written to standard output
    error,      \* the exception that ended the run, or "none"
    scans,      \* history: every subprocess run and its outcome
    rules,      \* history: every value create_object_rule returned
    links       \* history: every value create_exe_rule returned

vars == <<files, libraries, pc, entry, directory, block, idx, script,
          makefile, ret, printed, error, scans, rules, links>>

\* ------------------------------------------------------------------------
\* The functions of build.py

\* a variant of get_libraries: the flags in the opposite order
get_libraries_reversed ==
    Join(<<" ">>, [i \in 1..Len(libraries) |->
                      <<"-", "l">> \o libraries[Len(libraries) + 1 - i]])

\* get_libraries(): "-l" + lib for each library, joined by spaces
get_libraries ==
    Join(<<" ">>, [i \in 1..Len(libraries) |-> <<"-", "l">> \o libraries[i]])

\* the loop of get_linker_prerequisites: the words whose last three
\* characters are ".o:", each without its last character
ObjectsOf(tokens) ==
    LET hits == SelectSeq(tokens, LAMBDA word : Tail3(word) = <<".", "o", ":">>)
    IN  [i \in 1..Len(hits) |-> DropLast(hits[i])]

\* get_linker_prerequisites(script)
get_linker_prerequisites(s) == Join(<<" ">>, ObjectsOf(Split(s)))

\* create_exe_rule(directory, script)
create_exe_rule(d, s) ==
    LET target == d \o executable_name \o <<":", " ">>
        prerequisites == get_linker_prerequisites(s)
        recipe == <<"\n", "\t">>
                  \o <<"$","(","C","C",")"," ","-","o"," ","$","@"," ","$","^"," ">>
                  \o get_libraries \o <<"\n", "\n">>
    IN  target \o prerequisites \o recipe

\* colon = rule.find(':') + 1
ColonOf(rule) == Find(rule, ":") + 1

\* a variant of AssertHolds: the assertion is not checked
AssertSkipped(rule) == TRUE

\* assert(colon != 0): whether the assertion of insert_source holds
AssertHolds(rule) == ColonOf(rule) # 0

\* a variant of insert_source: the file goes in one place early, before
\* the colon
insert_source_before_colon(rule, file) ==
    Slice(rule, 0, ColonOf(rule) - 1) \o <<" ">> \o file \o <<" ">>
        \o Slice(rule, ColonOf(rule) - 1, Len(rule))

\* a variant of insert_source: the scanner's rule is passed on as it is
insert_source_skipped(rule, file) == rule

\* insert_source(rule, file), past its assertion
insert_source(rule, file) ==
    Slice(rule, 0, ColonOf(rule)) \o <<" ">> \o file \o <<" ">>
        \o Slice(rule, ColonOf(rule), Len(rule))

\* the recipe of an object rule
ObjectRecipe ==
    <<"\n", "\t">>
    \o <<"$","(","C","C",")"," ","$","(","C","F","L","A","G","S",")"," ">>
    \o <<"-","c"," ","-","o"," ","$","@"," ","$","<","\n","\n">>

\* a variant of create_object_rule: the target is always placed in
\* debug_dir
create_object_rule_in_debug(d, file, stdout) ==
    debug_dir \o insert_source(stdout, file) \o ObjectRecipe

\* create_object_rule(directory, file), given what the subprocess wrote
create_object_rule(d, file, stdout) ==
    LET target == d
        prerequisites == insert_source(stdout, file)
    IN  target \o prerequisites \o ObjectRecipe

\* build(): the branch on the directory.  The last branch builds a
\* ValueError and drops it (there is no raise), so nothing is added
BuildHeader(d) ==
    IF d = debug_dir THEN debug_build
    ELSE IF d = release_dir THEN release_build
    ELSE << >>

\* whether build() raises for its directory: line 141 has no raise
BuildRaises(d) == FALSE

\* ------------------------------------------------------------------------
\* Initial states

\* before anything is called: no locals, no output, no history
Fresh ==
    /\ pc = "idle"
    /\ entry = "none"
    /\ directory = << >>
    /\ block = 0
    /\ idx = 0
    /\ script = << >>
    /\ makefile = << >>
    /\ ret = << >>
    /\ printed = << >>
    /\ error = "none"
    /\ scans = << >>
    /\ rules = << >>
    /\ links = << >>

\* the library list of build.py, any file list of pairwise distinct paths
Init ==
    /\ files \in FileLists(MaxFiles)
    /\ libraries = <<pthread>>
    /\ Fresh

\* the file list of the documented example, any library list
InitLib ==
    /\ files = <<file_a, file_b>>
    /\ libraries \in LibraryLists(MaxLibs)
    /\ Fresh

\* ------------------------------------------------------------------------
\* Steps

\* build(d) up to its loop
BuildBegin(d) ==
    /\ directory' = d
    /\ IF BuildRaises(d)
       THEN /\ pc' = "failed"
            /\ error' = "ValueError"
            /\ UNCHANGED <<script, idx>>
       ELSE /\ pc' = "loop"
            /\ script' = BuildHeader(d)
            /\ idx' = 1
            /\ UNCHANGED error

\* a caller other than create_makefile calls build(d)
CallBuild(d) ==
    /\ pc = "idle"
    /\ entry' = "build"
    /\ block' = 1
    /\ BuildBegin(d)
    /\ UNCHANGED <<files, libraries, makefile, ret, printed, scans, rules, links>>

\* __main__ calls create_makefile(): makefile = preamble
CreateMakefile ==
    /\ pc = "idle"
    /\ entry' = "create_makefile"
    /\ makefile' = preamble
    /\ block' = 1
    /\ pc' = "call_build"
    /\ UNCHANGED <<files, libraries, directory, idx, script, ret, printed,
                   error, scans, rules, links>>

\* create_makefile calls build(debug_dir), then build(release_dir)
MakefileCallsBuild ==
    /\ pc = "call_build"
    /\ BuildBegin(IF block = 1 THEN debug_dir ELSE release_dir)
    /\ UNCHANGED <<files, libraries, entry, block, makefile, ret, printed,
                   scans, rules, links>>

\* one turn of build()'s loop: create_object_rule(directory, file) runs the
\* scanner, which comes back with one of its outcomes
CreateObjectRule ==
    /\ pc = "loop"
    /\ idx <= Len(files)
    /\ \E proc \in ScanOutcomes(files[idx]) :
        LET file == files[idx] IN
        /\ scans' = Append(scans, [block |-> block, file |-> file,
                                   returncode |-> proc.returncode,
                                   stdout |-> proc.stdout])
        /\ IF RunRaises(proc)
           THEN /\ pc' = "failed"
                /\ error' = "CalledProcessError"
                /\ UNCHANGED <<script, idx, rules>>
           ELSE IF ~AssertHolds(proc.stdout)
           THEN /\ pc' = "failed"
                /\ error' = "AssertionError"
                /\ UNCHANGED <<script, idx, rules>>
           ELSE LET rule == create_object_rule(directory, file, proc.stdout) IN
                /\ script' = script \o rule
                /\ idx' = idx + 1
                /\ rules' = Append(rules, [block |-> block, directory |-> directory,
                                           file |-> file, stdout |-> proc.stdout,
                                           text |-> rule])
                /\ UNCHANGED <<pc, error>>
    /\ UNCHANGED <<files, libraries, entry, directory, block, makefile, ret,
                   printed, links>>

\* after the loop: script += create_exe_rule(directory, script), and build
\* returns to its caller.  create_makefile appends what it got, and after
\* the second call appends clean and returns
CreateExeRule ==
    /\ pc = "loop"
    /\ idx > Len(files)
    /\ LET rule == create_exe_rule(directory, script)
           result == script \o rule
       IN
        /\ script' = result
        /\ links' = Append(links, [block |-> block, directory |-> directory,
                                   text |-> rule])
        /\ IF entry = "build"
           THEN /\ ret' = result
                /\ pc' = "returned"
                /\ UNCHANGED <<makefile, block>>
           ELSE IF block = 1
           THEN /\ makefile' = makefile \o result
                /\ block' = 2
                /\ pc' = "call_build"
                /\ UNCHANGED ret
           ELSE /\ makefile' = makefile \o result \o clean
                /\ pc' = "made"
                /\ UNCHANGED <<ret, block>>
    /\ UNCHANGED <<files, libraries, entry, directory, idx, printed, error,
                   scans, rules>>

\* __main__: print(makefile)
MainPrints ==
    /\ pc = "made"
    /\ printed' = makefile \o <<"\n">>
    /\ pc' = "printed"
    /\ UNCHANGED <<files, libraries, entry, directory, block, idx, script,
                   makefile, ret, error, scans, rules, links>>

Next ==
    \/ \E d \in Directories : CallBuild(d)
    \/ CreateMakefile
    \/ MakefileCallsBuild
    \/ CreateObjectRule
    \/ CreateExeRule
    \/ MainPrints

Spec == Init /\ [][Next]_vars

SpecLib == InitLib /\ [][Next]_vars

\* ------------------------------------------------------------------------
\* Reading a rule of the generated script, as make reads it

\* the 1-based place of the first c in text, or 0
FirstPlace(text, c) ==
    IF \A k \in 1..Len(text) : text[k] # c THEN 0
    ELSE CHOOSE p \in 1..Len(text) :
            text[p] = c /\ \A k \in 1..(p - 1) : text[k] # c

\* the target of a rule: what stands before its first colon
TargetOf(text) == SubSeq(text, 1, FirstPlace(text, ":") - 1)

\* the prerequisites of a rule: the words between its first colon and the
\* end of that line
PrereqsOf(text) ==
    LET colon == FirstPlace(text, ":")
        rest == SubSeq(text, colon + 1, Len(text))
        eol == FirstPlace(rest, "\n")
    IN  Split(SubSeq(rest, 1, IF eol = 0 THEN Len(rest) ELSE eol - 1))

\* whether sub occurs in text
Contains(text, sub) ==
    \E i \in 1..(Len(text) - Len(sub) + 1) : SubSeq(text, i, i + Len(sub) - 1) = sub

\* the two profile directories
ProfileDirs == {debug_dir, release_dir}

\* the places in rules of the object rules of one call of build()
RulesOf(b) == {i \in 1..Len(rules) : rules[i].block = b}

\* the targets of the object rules of one call of build()
ObjectTargets(b) == {TargetOf(rules[i].text) : i \in RulesOf(b)}

\* every scan of one call of build() came back as gcc -MM writes it on a
\* platform whose objects are *.o
GccScans(b) ==
    \A i \in 1..Len(scans) :
        scans[i].block = b =>
            /\ scans[i].returncode = 0
            /\ scans[i].stdout \in
                   {GccRule(scans[i].file, ObjSuffix, << >>),
                    GccRule(scans[i].file, ObjSuffix, <<HeaderOf(scans[i].file)>>)}

\* the run has ended with an exception: nothing was returned, nothing was
\* printed, and no step is left to take
Aborted(exception) ==
    /\ pc = "failed"
    /\ error = exception
    /\ ret = << >>
    /\ printed = << >>
    /\ ~ENABLED Next

\* ------------------------------------------------------------------------
\* C1 (as claimed): link completeness.  For every call of build(), the
\* prerequisites of the link rule are exactly the targets of the object
\* rules of that call, and no path occurs twice among them.  Stated for a
\* profile directory and scans that came back in gcc's own form.
C1_LinkCompleteness ==
    \A k \in 1..Len(links) :
        (links[k].directory \in ProfileDirs /\ GccScans(links[k].block)) =>
            LET pre == PrereqsOf(links[k].text) IN
            /\ {pre[j] : j \in 1..Len(pre)} = ObjectTargets(links[k].block)
            /\ \A i, j \in 1..Len(pre) : i # j => pre[i] # pre[j]

\* The part of C1 that the code keeps: the two sets are equal, and a path
\* stands in the link rule once for every object rule that has it as target
C1_SameTargets ==
    \A k \in 1..Len(links) :
        GccScans(links[k].block) =>
            LET pre == PrereqsOf(links[k].text) IN
            /\ {pre[j] : j \in 1..Len(pre)} = ObjectTargets(links[k].block)
            /\ Len(pre) = Cardinality(RulesOf(links[k].block))

\* C2: fatal propagation.  Once a scan has exited non-zero, in either
\* call of build() and at any file, it was the last scan, the run has ended
\* with CalledProcessError, and nothing was returned or printed.
C2_FatalPropagation ==
    \A i \in 1..Len(scans) :
        scans[i].returncode # 0 =>
            /\ i = Len(scans)
            /\ Aborted("CalledProcessError")

\* C2's case: the scan of the second file fails in the release block, after
\* the debug block was built in full
C2_Witness ==
    /\ pc = "failed"
    /\ error = "CalledProcessError"
    /\ block = 2
    /\ Len(links) = 1
    /\ idx = 2

\* C3: prerequisite inclusion.  Every object rule is the directory, the
\* scanner's text up to and including its first colon, then " ", the file's
\* own path, " ", then the rest of the scanner's text: the file is the
\* first prerequisite and every prerequisite the scanner listed comes after.
C3_PrerequisiteInclusion ==
    \A i \in 1..Len(rules) :
        LET r == rules[i]
            c == FirstPlace(r.stdout, ":")
            d == Len(r.directory)
            f == Len(r.file)
            pre == PrereqsOf(r.text)
        IN  /\ c > 0
            /\ SubSeq(r.text, 1, d + c) = r.directory \o SubSeq(r.stdout, 1, c)
            /\ SubSeq(r.text, d + c + 1, d + c + f + 2) = <<" ">> \o r.file \o <<" ">>
            /\ SubSeq(r.text, d + c + f + 3, d + f + 2 + Len(r.stdout))
                   = SubSeq(r.stdout, c + 1, Len(r.stdout))
            /\ Len(pre) >= 1
            /\ pre[1] = r.file
            /\ SubSeq(pre, 2, Len(pre)) = PrereqsOf(r.stdout)

\* C3's case: a release rule made from a scan that lists the file and a
\* header
C3_Witness ==
    \E i \in 1..Len(rules) :
        /\ rules[i].directory = release_dir
        /\ PrereqsOf(rules[i].stdout) = <<rules[i].file, HeaderOf(rules[i].file)>>

\* C4 (as claimed): a call of build() with a directory that is neither
\* debug_dir nor release_dir returns no script text and produces no object
\* rule and no link rule.
C4_UnknownDirectoryFatal ==
    (entry = "build" /\ directory \notin {debug_dir, release_dir}) =>
        /\ rules = << >>
        /\ links = << >>
        /\ ret = << >>
        /\ pc # "returned"

\* C5 (as claimed): unique object targets.  The paths of the file list are
\* pairwise distinct (every initial state), each target is the profile
\* directory followed by the scanner's target name, and no two object rules
\* of one call of build() have the same target.
C5_UniqueObjectTargets ==
    \A i, j \in 1..Len(rules) :
        (/\ i # j
         /\ rules[i].block = rules[j].block
         /\ rules[i].directory \in ProfileDirs
         /\ GccScans(rules[i].block)) =>
            /\ TargetOf(rules[i].text) = rules[i].directory \o TargetOf(rules[i].stdout)
            /\ TargetOf(rules[i].text) # TargetOf(rules[j].text)

\* C6 (as claimed): with a file list that is not empty, no link rule with
\* an empty prerequisite list is produced for a profile.
C6_EmptyAggregationFatal ==
    \A k \in 1..Len(links) :
        (files # << >> /\ links[k].directory \in ProfileDirs) =>
            PrereqsOf(links[k].text) # << >>

\* C7: profile isolation.  In a run of create_makefile, no target of the
\* debug block (object or executable) is a target of the release block, and
\* neither link rule has an object target of the other block among its
\* prerequisites.
C7_ProfileIsolation ==
    entry = "create_makefile" =>
        LET Targets(b) ==
                ObjectTargets(b)
                \cup {TargetOf(links[k].text) : k \in {n \in 1..Len(links) : links[n].block = b}}
        IN  /\ Targets(1) \cap Targets(2) = {}
            /\ \A k \in 1..Len(links) :
                   LET pre == PrereqsOf(links[k].text) IN
                   {pre[j] : j \in 1..Len(pre)} \cap ObjectTargets(3 - links[k].block) = {}

\* C7's case: the makefile is printed, both blocks were made from the same
\* two files and both link rules name two objects
C7_Witness ==
    /\ pc = "printed"
    /\ Len(files) = 2
    /\ Len(links) = 2
    /\ Len(PrereqsOf(links[1].text)) = 2
    /\ Len(PrereqsOf(links[2].text)) = 2
    /\ TargetOf(links[1].text) = debug_dir \o executable_name
    /\ TargetOf(links[2].text) = release_dir \o executable_name

\* C8: malformed scanner output is fatal.  Once a scan has exited with
\* status 0 and text without a colon, it was the last scan, no object rule
\* was returned for it, the run has ended with AssertionError, and nothing
\* was returned or printed.
C8_MalformedOutputFatal ==
    \A i \in 1..Len(scans) :
        (scans[i].returncode = 0 /\ \A k \in 1..Len(scans[i].stdout) : scans[i].stdout[k] # ":") =>
            /\ i = Len(scans)
            /\ Cardinality(RulesOf(scans[i].block))
                   = Cardinality({n \in 1..(i - 1) : scans[n].block = scans[i].block})
            /\ Aborted("AssertionError")

\* C8's case: the scanner wrote nothing for the second file of the debug
\* block and exited with status 0
C8_Witness ==
    /\ error = "AssertionError"
    /\ Len(scans) = 2
    /\ scans[2].returncode = 0
    /\ scans[2].stdout = << >>
    /\ Len(rules) = 1

\* C9: library flag ordering.  In every link rule, the words after "$^"
\* are exactly the flags -l<name>, one for each entry of the library list,
\* in the list's order, duplicates kept; the prerequisites stand before
\* "$^"; and for ["pthread", "m"] the rule contains "-lpthread -lm".
C9_LibraryFlagOrdering ==
    \A k \in 1..Len(links) :
        LET words == Split(links[k].text)
            refs == {p \in 1..Len(words) : words[p] = <<"$", "^">>}
        IN  /\ Cardinality(refs) = 1
            /\ \A p \in refs :
                /\ Len(words) - p = Len(libraries)
                /\ \A i \in 1..Len(libraries) :
                       words[p + i] = <<"-", "l">> \o libraries[i]
                /\ Len(PrereqsOf(links[k].text)) < p
            /\ libraries = <<pthread, libm>> =>
                   Contains(links[k].text,
                            <<"-","l">> \o pthread \o <<" ","-","l">> \o libm)

\* C9's case: a link rule made with the library list ["pthread", "m"]
C9_Witness ==
    /\ libraries = <<pthread, libm>>
    /\ Len(links) >= 1
    /\ Len(PrereqsOf(links[1].text)) = 2

\* C10 (as claimed): when the scanner's rule names only the source file,
\* the prerequisites of the object rule of a profile are that one path,
\* once.
C10_SelfContainedOnce ==
    \A i \in 1..Len(rules) :
        (/\ rules[i].directory \in ProfileDirs
         /\ PrereqsOf(rules[i].stdout) = <<rules[i].file>>) =>
            PrereqsOf(rules[i].text) = <<rules[i].file>>

\* C10 (amended): when the scanner's rule names only the source file, the
\* prerequisites of the object rule are that path and no other, and the
\* path stands there twice: the inserted copy, then the scanner's own.
C10_SelfContainedTwice ==
    \A i \in 1..Len(rules) :
        PrereqsOf(rules[i].stdout) = <<rules[i].file>> =>
            PrereqsOf(rules[i].text) = <<rules[i].file, rules[i].file>>

\* C10's case: an object rule made from the scan "a.o: ./a.c"
C10_Witness ==
    \E i \in 1..Len(rules) :
        /\ rules[i].file = file_a
        /\ rules[i].directory = debug_dir
        /\ rules[i].stdout = GccRule(file_a, ObjSuffix, << >>)

=============================================================================
